---- MODULE Spec2Model ----
(***************************************************************************)
(* Early-boot memory discovery of theon (x86_64/pc/multiboot1.rs): the     *)
(* Multiboot-1 record is parsed into firmware regions and modules, the     *)
(* loader's and the modules' own regions are added, the list is sorted     *)
(* with Region::cmp and fix_overlap splits it into the region partition.   *)
(***************************************************************************)
EXTENDS Integers, Sequences, FiniteSets, TLC

VARIABLES
    mb,              \* the boot record: [mmap, mods], each an Option of a sequence
    kernel_end,      \* theon::end_addr() - VZERO, the loader's physical end
    pc,              \* position in init_memory_regions / in the normalizer
    memory_regions,  \* parse_memory's result (InitInfo.memory_regions)
    modules,         \* parse_modules' result (InitInfo.modules)
    input,           \* the region list handed to sort_by
    regions,         \* fix_overlap's result (InitInfo.regions)
    passes           \* number of normalizations run so far

vars == <<mb, kernel_end, pc, memory_regions, modules, input, regions, passes>>

-----------------------------------------------------------------------------
(* Bounds of the model.                                                    *)

\* Width of a modelled address: u64 narrowed so that TLC's integers hold it.
AddrBits == 28
\* Longest firmware memory map and module list of a boot record.
MaxMmap == 3
MaxMods == 1
\* Longest enumerated module path string.
MaxStrLen == 2
\* Region lists handed directly to the normalizer: length and address range.
MaxLen == 3
MaxAddr == 4
\* The same, for the lists the idempotence check enumerates.
IdemLen == 3
IdemAddr == 3
\* Lists of regions with distinct starts: largest start and longest region.
SplitStart == 4
SplitSpan == 3
\* Number of times the normalizer is run on its own output.
MaxPasses == 2

AddrSpace == 2 ^ AddrBits

-----------------------------------------------------------------------------
(* Option<T>.                                                              *)

None == [some |-> FALSE, val |-> <<>>]
Some(v) == [some |-> TRUE, val |-> v]

\* u64::wrapping_add on the modelled width.
wrapping_add(a, b) == (a + b) % AddrSpace

-----------------------------------------------------------------------------
(* memory::Type and memory::Region.                                        *)

Type == {"RAM", "Reserved", "ACPI", "NonVolatile", "Defective", "Loader", "Module"}
FirmwareTypes == {"RAM", "Reserved", "ACPI", "NonVolatile", "Defective"}

Region(s, e, t) == [start |-> s, end |-> e, typ |-> t]

\* Priority of a Type in Region::cmp: Loader and Module rank above every
\* firmware-reported type.
TypeRank(t) ==
    CASE t = "RAM" -> 0
      [] t = "Reserved" -> 1
      [] t = "ACPI" -> 2
      [] t = "NonVolatile" -> 3
      [] t = "Defective" -> 4
      [] t = "Loader" -> 5
      [] t = "Module" -> 6

\* memory::Region::cmp.  Primary key: the start address, descending, so that
\* fix_overlap's pop() yields the regions by ascending start.  Ties: the type
\* priority, ascending, so that the higher priority is popped first.
Region_cmp(a, b) ==
    IF a.start > b.start THEN "Less"
    ELSE IF a.start < b.start THEN "Greater"
    ELSE IF TypeRank(a.typ) < TypeRank(b.typ) THEN "Less"
    ELSE IF TypeRank(a.typ) > TypeRank(b.typ) THEN "Greater"
    ELSE "Equal"

\* Insert x behind every element that does not compare Greater than it.
RECURSIVE sort_insert(_, _)
sort_insert(s, x) ==
    IF s = <<>> THEN <<x>>
    ELSE IF Region_cmp(s[Len(s)], x) = "Greater"
         THEN Append(sort_insert(SubSeq(s, 1, Len(s) - 1), x), s[Len(s)])
         ELSE Append(s, x)

\* slice::sort_by(memory::Region::cmp): a stable sort.
RECURSIVE sort_by(_)
sort_by(s) ==
    IF s = <<>> THEN <<>>
    ELSE sort_insert(sort_by(SubSeq(s, 1, Len(s) - 1)), s[Len(s)])

-----------------------------------------------------------------------------
(* fix_overlap.                                                            *)

\* First branch: prev and region start together and prev ends first.
same_start_sticks_out(prev, region) ==
    prev.start = region.start /\ prev.end < region.end

overlaps_mutant(prev, region) == region.start <= prev.end
\* Second branch: region starts inside prev.
overlaps(prev, region) == region.start < prev.end

split_push_mutant(out, prev, region) ==
    Append(out, Region(prev.start, region.start, prev.typ))
\* The pushes of the second branch: prev's part before region, then region
\* itself when it ends inside prev.
split_push(out, prev, region) ==
    LET head == Append(out, Region(prev.start, region.start, prev.typ))
    IN  IF region.end < prev.end THEN Append(head, region) ELSE head

\* The while loop: stack is overlapping_regions (popped from its end), out is
\* regions, prev the open region.
RECURSIVE fix_loop(_, _, _)
fix_loop(stack, prev, out) ==
    IF stack = <<>> THEN Append(out, prev)
    ELSE LET region == stack[Len(stack)]
             rest == SubSeq(stack, 1, Len(stack) - 1)
         IN  IF same_start_sticks_out(prev, region)
             THEN fix_loop(rest, [region EXCEPT !.start = prev.end], Append(out, prev))
             ELSE IF overlaps(prev, region)
             THEN fix_loop(rest, [prev EXCEPT !.start = region.end],
                           split_push(out, prev, region))
             ELSE fix_loop(rest, region, Append(out, prev))

\* fix_overlap on a non-empty list (pop().unwrap() panics on an empty one).
fix_overlap(overlapping_regions) ==
    fix_loop(SubSeq(overlapping_regions, 1, Len(overlapping_regions) - 1),
             overlapping_regions[Len(overlapping_regions)], <<>>)

-----------------------------------------------------------------------------
(* Parsing the boot record.                                                *)

LOADER_START == 1048576

memory_type(mt) ==
    CASE mt = "Available" -> "RAM"
      [] mt = "Reserved" -> "Reserved"
      [] mt = "ACPI" -> "ACPI"
      [] mt = "NVS" -> "NonVolatile"
      [] mt = "Defect" -> "Defective"

\* parse_memory: None when the record has no memory map, else one Region per
\* entry, the end computed with wrapping_add.
parse_memory(mmap) ==
    IF ~mmap.some THEN None
    ELSE Some([i \in 1..Len(mmap.val) |->
                 Region(mmap.val[i].base,
                        wrapping_add(mmap.val[i].base, mmap.val[i].length),
                        memory_type(mmap.val[i].typ))])

\* phys_to_slice: the byte view of a physical range, kept as its offset from
\* VZERO and its length.
phys_to_slice(phys_addr, len) == Some([phys |-> phys_addr, len |-> len])

\* str::split('/'): the segments between the separators, empty ones included.
RECURSIVE split(_)
split(s) ==
    LET idx == {i \in 1..Len(s) : s[i] = "/"}
    IN  IF idx = {} THEN <<s>>
        ELSE LET i == CHOOSE j \in idx : \A k \in idx : j <= k
             IN  <<SubSeq(s, 1, i - 1)>> \o split(SubSeq(s, i + 1, Len(s)))

next_back_mutant(segments) ==
    IF segments = <<>> THEN None ELSE Some(segments[1])
\* DoubleEndedIterator::next_back on the split.
next_back(segments) ==
    IF segments = <<>> THEN None ELSE Some(segments[Len(segments)])

\* m.string.map(|name| name.split('/').next_back().unwrap()); the unwrap
\* panics on None.
name_panics(string) == string.some /\ ~next_back(split(string.val)).some
module_name(string) ==
    IF string.some THEN Some(next_back(split(string.val)).val) ELSE None

\* parse_modules: None when the record has no module section.
parse_modules(mods) ==
    IF ~mods.some THEN None
    ELSE Some([i \in 1..Len(mods.val) |->
                 [bytes |-> phys_to_slice(mods.val[i].start,
                                          mods.val[i].end - mods.val[i].start).val,
                  name |-> module_name(mods.val[i].string)]])

\* MultibootModule::region.
region(module) ==
    Region(module.bytes.phys,
           wrapping_add(module.bytes.phys, module.bytes.len), "Module")

theon_region(phys_end) == Region(LOADER_START, phys_end, "Loader")

\* usable_regions up to the sort: the firmware map, the loader's region and
\* one region per module.
pushed_regions(rs, ms, phys_end) ==
    Append(rs, theon_region(phys_end)) \o [i \in 1..Len(ms) |-> region(ms[i])]

usable_regions(rs, ms, phys_end) ==
    fix_overlap(sort_by(pushed_regions(rs, ms, phys_end)))

-----------------------------------------------------------------------------
(* The boot records the model enumerates.                                  *)

\* The firmware memory-map entries of a PC: low RAM, the reserved hole
\* below 1 MiB, and RAM from 1 MiB to 128 MiB.
FirmwareEntries ==
    { [base |-> 0, length |-> 654336, typ |-> "Available"],
      [base |-> 654336, length |-> 394240, typ |-> "Reserved"],
      [base |-> 1048576, length |-> 133169152, typ |-> "Available"] }

\* Physical ends of the loaded image.
KernelEnds == {2097152, 4194304}

Chars == {"/", "a"}
PathExample ==
    <<"b", "o", "o", "t", "/", "i", "n", "i", "t", "r", "d", ".", "i", "m", "g">>
PathStrings == UNION {[1..n -> Chars] : n \in 0..MaxStrLen} \cup {PathExample}

ModDescs ==
    { [start |-> 3145728, end |-> 3276800, string |-> s] :
        s \in {None} \cup {Some(p) : p \in PathStrings} }

SeqsUpTo(S, n) == UNION {[1..k -> S] : k \in 0..n}

BootRecords ==
    [mmap : {None} \cup {Some(m) : m \in SeqsUpTo(FirmwareEntries, MaxMmap)},
     mods : {None} \cup {Some(m) : m \in SeqsUpTo(ModDescs, MaxMods)}]

NoRecord == [mmap |-> None, mods |-> None]

-----------------------------------------------------------------------------
(* init_memory_regions, one action per statement.                          *)

Init ==
    /\ mb \in BootRecords
    /\ kernel_end \in KernelEnds
    /\ pc = "init"
    /\ memory_regions = <<>>
    /\ modules = <<>>
    /\ input = <<>>
    /\ regions = <<>>
    /\ passes = 0

init_parse_memory_mutant ==
    /\ pc = "init"
    /\ memory_regions' = parse_memory(mb.mmap).val
    /\ pc' = "parse_modules"
    /\ UNCHANGED <<mb, kernel_end, modules, input, regions, passes>>
\* let memory_regions = parse_memory(mb).unwrap();
init_parse_memory ==
    /\ pc = "init"
    /\ LET r == parse_memory(mb.mmap)
       IN  IF r.some
           THEN memory_regions' = r.val /\ pc' = "parse_modules"
           ELSE memory_regions' = memory_regions /\ pc' = "panic"
    /\ UNCHANGED <<mb, kernel_end, modules, input, regions, passes>>

\* let modules = parse_modules(mb).expect("could not find modules");
init_parse_modules ==
    /\ pc = "parse_modules"
    /\ LET r == parse_modules(mb.mods)
       IN  IF r.some /\ \A i \in 1..Len(mb.mods.val) : ~name_panics(mb.mods.val[i].string)
           THEN modules' = r.val /\ pc' = "usable_regions"
           ELSE modules' = modules /\ pc' = "panic"
    /\ UNCHANGED <<mb, kernel_end, memory_regions, input, regions, passes>>

\* let regions = usable_regions(memory_regions.clone(), &modules); and the
\* return of the triple.
init_usable_regions ==
    /\ pc = "usable_regions"
    /\ input' = pushed_regions(memory_regions, modules, kernel_end)
    /\ regions' = usable_regions(memory_regions, modules, kernel_end)
    /\ passes' = passes + 1
    /\ pc' = "done"
    /\ UNCHANGED <<mb, kernel_end, memory_regions, modules>>

Next == init_parse_memory \/ init_parse_modules \/ init_usable_regions

Spec == Init /\ [][Next]_vars

-----------------------------------------------------------------------------
(* The normalizer (sort_by, then fix_overlap) on arbitrary region lists.   *)

InputTypes == {"RAM", "Reserved", "Module"}

RegionsUpTo(maxaddr, types) ==
    {Region(s, e, t) : s \in 0..maxaddr, e \in 0..maxaddr, t \in types} \cap
    {r \in [start : 0..maxaddr, end : 0..maxaddr, typ : types] : r.start <= r.end}

ListsUpTo(S, n) == UNION {[1..k -> S] : k \in 1..n}

InitWith(lists) ==
    /\ mb = NoRecord
    /\ kernel_end = 0
    /\ pc = "sort"
    /\ memory_regions = <<>>
    /\ modules = <<>>
    /\ input \in lists
    /\ regions = <<>>
    /\ passes = 0

InitFix == InitWith(ListsUpTo(RegionsUpTo(MaxAddr, InputTypes), MaxLen))
InitIdem == InitWith(ListsUpTo(RegionsUpTo(IdemAddr, {"RAM", "Module"}), IdemLen))

\* regions.sort_by(memory::Region::cmp); fix_overlap(regions)
Normalize ==
    /\ pc = "sort"
    /\ regions' = fix_overlap(sort_by(input))
    /\ passes' = passes + 1
    /\ pc' = "done"
    /\ UNCHANGED <<mb, kernel_end, memory_regions, modules, input>>

\* The partition is handed to the normalizer again.
Renormalize ==
    /\ pc = "done"
    /\ passes < MaxPasses
    /\ input' = regions
    /\ pc' = "sort"
    /\ UNCHANGED <<mb, kernel_end, memory_regions, modules, regions, passes>>

NextFix == Normalize \/ Renormalize

\* Lists whose regions are non-empty and start at pairwise distinct addresses,
\* given by ascending start: Region::cmp orders them by its primary key alone.
RECURSIVE AscendingLists(_)
AscendingLists(lo) ==
    IF lo > SplitStart THEN {<<>>}
    ELSE LET rest == AscendingLists(lo + 1)
         IN  rest \cup { <<Region(lo, lo + span, t)>> \o l :
                           span \in 1..SplitSpan, t \in {"RAM", "Module"}, l \in rest }

DistinctStartLists == AscendingLists(0) \ {<<>>}

InitSplit == InitWith(DistinctStartLists)

SpecFix == InitFix /\ [][NextFix]_vars
SpecIdem == InitIdem /\ [][NextFix]_vars
SpecSplit == InitSplit /\ [][NextFix]_vars

-----------------------------------------------------------------------------
(* Vocabulary of the properties.                                           *)

\* The addresses of the half-open interval [start, end).
Cover(r) == {a \in r.start..(r.end - 1) : TRUE}
CoverAll(l) == UNION {Cover(l[i]) : i \in DOMAIN l}

WellFormed(l) == l # <<>> /\ \A i \in DOMAIN l : l[i].start <= l[i].end
NonEmptyRegions(l) == l # <<>> /\ \A i \in DOMAIN l : l[i].start < l[i].end
DistinctStarts(l) == \A i, j \in DOMAIN l : i # j => l[i].start # l[j].start

\* Sorted by start, no two regions overlapping, no region empty.
Normalized(l) ==
    /\ NonEmptyRegions(l)
    /\ \A i \in 1..(Len(l) - 1) : l[i].end <= l[i + 1].start

\* A well-formed list the order of which Region::cmp's primary key decides.
Decided(l) == WellFormed(l) /\ DistinctStarts(l)

-----------------------------------------------------------------------------
(* C1..C4, C9, C10: the partition fix_overlap returns.                     *)

\* C1 (coverage): the addresses the output regions cover are exactly the
\* addresses the input regions cover.  Stated over the inputs with pairwise
\* distinct starts, which the start address alone orders.
C1_Coverage ==
    (pc = "done" /\ Decided(input)) => CoverAll(regions) = CoverAll(input)

\* C2 (non-overlap): no two regions of the output cover a common address.
C2_NonOverlap ==
    (pc = "done" /\ Decided(input)) =>
        \A i, j \in DOMAIN regions :
            i # j => Cover(regions[i]) \cap Cover(regions[j]) = {}

\* C3 (sortedness): the output, in the order returned, is non-decreasing by
\* start address.
C3_Sorted ==
    (pc = "done" /\ Decided(input)) =>
        \A i \in 1..(Len(regions) - 1) : regions[i].start <= regions[i + 1].start

\* C4 (Module/Loader precedence): every address a Module or Loader input
\* shares with a firmware-typed input is covered in the output by a Module or
\* Loader region and by no firmware-typed region.
C4_Precedence ==
    (pc = "done" /\ Decided(input)) =>
        \A m, f \in DOMAIN input :
            (input[m].typ \in {"Module", "Loader"} /\ input[f].typ \in FirmwareTypes) =>
                \A a \in Cover(input[m]) \cap Cover(input[f]) :
                    /\ \E k \in DOMAIN regions :
                           a \in Cover(regions[k]) /\ regions[k].typ = input[m].typ
                    /\ \A k \in DOMAIN regions :
                           a \in Cover(regions[k]) => regions[k].typ \notin FirmwareTypes

\* C9 (well-formed output): when every input region has start < end, every
\* output region has start <= end and none is zero-length.
C9_WellFormedOutput ==
    (pc = "done" /\ NonEmptyRegions(input) /\ DistinctStarts(input)) =>
        \A k \in DOMAIN regions : regions[k].start < regions[k].end

\* C10 (split of a containing region): when input B lies strictly inside
\* input A and no other input overlaps A, the output holds, next to each
\* other and in this order, [A.start, B.start) of A's type, B, and
\* [B.end, A.end) of A's type.  Stated over the inputs of non-empty regions
\* with pairwise distinct starts.
C10_Split ==
    (pc = "done" /\ NonEmptyRegions(input) /\ DistinctStarts(input)) =>
        \A i, j \in DOMAIN input :
            ( /\ input[i].start < input[j].start
              /\ input[j].end < input[i].end
              /\ \A k \in DOMAIN input \ {i, j} :
                     Cover(input[k]) \cap Cover(input[i]) = {} ) =>
                \E k \in 1..(Len(regions) - 2) :
                    /\ regions[k] = Region(input[i].start, input[j].start, input[i].typ)
                    /\ regions[k + 1] = input[j]
                    /\ regions[k + 2] = Region(input[j].end, input[i].end, input[i].typ)

-----------------------------------------------------------------------------
(* C5: the end-to-end scenario.                                            *)

E2EMmap ==
    << [base |-> 0, length |-> 654336, typ |-> "Available"],
       [base |-> 654336, length |-> 394240, typ |-> "Reserved"],
       [base |-> 1048576, length |-> 133169152, typ |-> "Available"] >>

E2EScenario ==
    /\ mb.mmap = Some(E2EMmap)
    /\ mb.mods.some
    /\ Len(mb.mods.val) = 1
    /\ mb.mods.val[1].start = 3145728
    /\ mb.mods.val[1].end = 3276800
    /\ kernel_end = 2097152

E2EExpected ==
    << Region(0, 654336, "RAM"),
       Region(654336, 1048576, "Reserved"),
       Region(1048576, 2097152, "Loader"),
       Region(2097152, 3145728, "RAM"),
       Region(3145728, 3276800, "Module"),
       Region(3276800, 134217728, "RAM") >>

\* C5 (end-to-end scenario): the three firmware regions, the Loader region
\* [0x100000, 0x200000) and the Module region [0x300000, 0x320000) normalize
\* to exactly the six regions of E2EExpected, in that order.
C5_EndToEnd == (E2EScenario /\ pc = "done") => regions = E2EExpected

C5_Witness == E2EScenario /\ pc = "done" /\ Len(regions) = 6

-----------------------------------------------------------------------------
(* C6: idempotence.                                                        *)

-----------------------------------------------------------------------------
(* C7: a boot record without a usable memory map.                          *)

\* C7 as claimed (failure scenario): for a record whose memory map is
\* present but has zero entries, init_memory_regions aborts: no partition is
\* produced and no InitInfo is returned.
C7_ZeroEntriesAbort ==
    (mb.mmap.some /\ Len(mb.mmap.val) = 0) => (pc # "done" /\ regions = <<>>)

\* C7 as amended: a record with no memory-map section never gets past
\* parse_memory: the unwrap panics before the modules are parsed, before any
\* partition is produced and before an InitInfo is returned.
C7_NoMemoryMapAbort ==
    ~mb.mmap.some =>
        (pc \in {"init", "panic"} /\ modules = <<>> /\ regions = <<>>)

C7_Witness == ~mb.mmap.some /\ mb.mods.some /\ pc = "panic"

-----------------------------------------------------------------------------
(* C8: the name of a module.                                               *)

\* The part of s behind its last '/', all of s when it holds none.
AfterLastSlash(s) ==
    LET idx == {i \in 1..Len(s) : s[i] = "/"}
    IN  IF idx = {} THEN s
        ELSE SubSeq(s, (CHOOSE j \in idx : \A k \in idx : k <= j) + 1, Len(s))

InitrdImg == <<"i", "n", "i", "t", "r", "d", ".", "i", "m", "g">>

\* C8 (name derivation): once parse_modules has run, every module's name is
\* the part of the firmware string behind its last '/' ("boot/initrd.img"
\* gives "initrd.img"), the whole string when it holds no '/', and None
\* when the firmware gave no string; no string makes parse_modules panic.
C8_NameDerivation ==
    /\ pc \in {"usable_regions", "done"} =>
         /\ Len(modules) = Len(mb.mods.val)
         /\ \A i \in DOMAIN modules :
              LET string == mb.mods.val[i].string
              IN  /\ ~string.some => modules[i].name = None
                  /\ string.some => modules[i].name = Some(AfterLastSlash(string.val))
                  /\ string = Some(PathExample) => modules[i].name = Some(InitrdImg)
    /\ pc = "panic" => (~mb.mmap.some \/ ~mb.mods.some)

C8_Witness ==
    /\ pc = "usable_regions"
    /\ Len(modules) = 1
    /\ mb.mods.val[1].string = Some(PathExample)
    /\ modules[1].name = Some(InitrdImg)

====
